---- MODULE Spec2Model ----
(***************************************************************************)
(* Mass-spring-damper grid simulator (src/main.js, second variant, lines   *)
(* 367-798).                                                               *)
(*                                                                         *)
(* Numbers.  The program computes in IEEE doubles.  Here every length is   *)
(* an integer count of 1/SCALE pixel, every velocity a count of 1/SCALE    *)
(* pixel per second, every stored force (already divided by the mass) a    *)
(* count of 1/SCALE pixel per second squared; a unit direction is an       *)
(* integer count of 1/DSCALE.  Every division and the square root round to *)
(* nearest, as the floating point operations do.  Decimal constants are    *)
(* kept as exact fractions (0.016 = 2/125, 0.2 = 1/5, 0.1 = 1/10,          *)
(* 0.05 = 1/20).  Sums, differences, comparisons, Math.max and Math.min    *)
(* are exact.                                                              *)
(*                                                                         *)
(* A vector [x, y] of the program is the tuple <<x, y>>; the 2-D arrays    *)
(* positions[i][j] ... are functions over 0..rows-1 and 0..cols-1.         *)
(***************************************************************************)
EXTENDS Integers, Sequences, FiniteSets, TLC

\* ------------------------------------------------------------------ bounds
SCALE == 10          \* length units per pixel
DSCALE == 1000       \* units of a unit direction
MaxDim == 3          \* largest rows / cols typed under the free-form preset
MaxSteps == 8        \* integration steps on a one-point grid since it was built
MinSteps == 2        \* integration steps on every grid since it was built
MaxDrags == 1        \* drag events on a grid since it was built
MaxDragNodes == 2    \* nodes of a grid that are dragged (the first ones, row by row)
MaxPending == 2      \* animation-frame callbacks that may be pending

\* -------------------------------------------------- constants of the source
width == 600
height == 400
padding == 50
timeStepNum == 2
timeStepDen == 125
structuralRestLength == 50
structuralK == 20
structuralDampingNum == 1
structuralDampingDen == 10
shearK == 7
shearDampingNum == 1
shearDampingDen == 20
massNum == 1
massDen == 5

\* parseInt of a text that holds no number.  Every test the program makes on
\* rows and cols is i < rows, i < rows - 1 or rows > 1 with i >= 0, all of
\* them false for NaN; the same tests are false for this value, and the
\* texts of InputTexts never parse to it.
NaN == 0 - 1

Tasks == 1..5
Methods == {"euler", "verlet"}

VARIABLES task, method, rows, cols, positions, velocities, forces,
          prevPositions, isRunning, pending, last, call,
          nSteps, nDrags, rowsValue, colsValue

grid == <<positions, velocities, forces, prevPositions>>
\* the texts the rows and cols controls hold
controls == <<rowsValue, colsValue>>
vars == <<task, method, rows, cols, positions, velocities, forces,
          prevPositions, isRunning, pending, last, call,
          nSteps, nDrags, rowsValue, colsValue>>

\* ---------------------------------------------------------------- numbers
Abs(a) == IF a < 0 THEN 0 - a ELSE a
Max(a, b) == IF a >= b THEN a ELSE b
Min(a, b) == IF a <= b THEN a ELSE b

\* a / b for b > 0, rounded to the nearest integer
RDiv(a, b) == IF a >= 0 THEN (2 * a + b) \div (2 * b)
                        ELSE 0 - ((2 * (0 - a) + b) \div (2 * b))

RECURSIVE SqrtSearch(_, _, _)
SqrtSearch(n, lo, hi) ==
    IF lo >= hi THEN lo
    ELSE LET mid == (lo + hi + 1) \div 2
         IN  IF mid * mid <= n THEN SqrtSearch(n, mid, hi)
                               ELSE SqrtSearch(n, lo, mid - 1)

\* Math.sqrt, rounded to the nearest integer
Sqrt(n) == LET r == SqrtSearch(n, 0, Min(n, 46340))
           IN  IF n - r * r > r THEN r + 1 ELSE r

Rng(n) == 0..(n - 1)

px(n) == n * SCALE

shearRestLength == RDiv(px(structuralRestLength) * Sqrt(2 * DSCALE * DSCALE), DSCALE)

\* Math.max(padding, Math.min(limit - padding, v))
Clamp(v, limit) == Max(px(padding), Min(px(limit) - px(padding), v))

\* ------------------------------------------------------------ initializeGrid
Lattice(r, c) ==
    LET xStep == IF c > 1 THEN RDiv(px(width) - 2 * px(padding), c - 1) ELSE 0
        yStep == IF r > 1 THEN RDiv(px(height) - 2 * px(padding), r - 1) ELSE 0
        yStart == RDiv(px(height), 2) - RDiv((r - 1) * yStep, 2)
    IN  [i \in Rng(r) |-> [j \in Rng(c) |->
            <<px(padding) + j * xStep, yStart + i * yStep>>]]

Zeros(r, c) == [i \in Rng(r) |-> [j \in Rng(c) |-> <<0, 0>>]]

\* the point a preset disturbs and the offset it adds
DisturbedPoint(t, c) ==
    IF t \in {1, 2, 3} THEN <<0, 1>>
    ELSE IF t = 4 THEN <<1, 1>>
    ELSE <<0, c \div 2>>

\* every preset lifts its point, the first by 20
DisturbanceLifted(t) ==
    IF t = 1 THEN <<0, 0 - px(20)>>
    ELSE IF t \in {2, 3} THEN <<0, 0 - px(30)>>
    ELSE <<0, 0 - px(40)>>

Disturbance(t) ==
    IF t = 1 THEN <<px(20), 0>>
    ELSE IF t \in {2, 3} THEN <<0, 0 - px(30)>>
    ELSE <<0, 0 - px(40)>>

\* the deep copy taken for prevPositions
PrevCopy(lattice, disturbed) == lattice

\* rows and cols are the values held before the call; the result holds the
\* values the call leaves.  threw: the call ended in a TypeError at the
\* disturbance (positions[0][midCol] is undefined), after every array was
\* rebuilt.
initializeGrid(t, r0, c0) ==
    LET r == IF t = 1 THEN 1 ELSE IF t \in {2, 3} THEN 2 ELSE IF t = 4 THEN 3 ELSE r0
        c == IF t = 1 THEN 2 ELSE IF t \in {2, 3} THEN 2 ELSE IF t = 4 THEN 3 ELSE c0
        lattice == Lattice(r, c)
        pt == DisturbedPoint(t, c)
        ok == pt[1] \in Rng(r) /\ pt[2] \in Rng(c)
        d == Disturbance(t)
        disturbed == IF ok
                     THEN [lattice EXCEPT ![pt[1]][pt[2]] =
                              <<@[1] + d[1], @[2] + d[2]>>]
                     ELSE lattice
    IN  [rows |-> r, cols |-> c,
         positions |-> disturbed,
         velocities |-> Zeros(r, c),
         forces |-> Zeros(r, c),
         prevPositions |-> PrevCopy(lattice, disturbed),
         threw |-> ~ok]

\* --------------------------------------------------------------- applySpring
\* One call applySpring(i1, j1, i2, j2, L0, k, b): p1 = <<i1, j1>>,
\* p2 = <<i2, j2>>, L0 in length units, b = bNum / bDen.
SpringCall(p1, p2, L0, k, bNum, bDen) ==
    [p1 |-> p1, p2 |-> p2, L0 |-> L0, k |-> k, bNum |-> bNum, bDen |-> bDen]

\* if (dist === 0) return
Degenerate(dist) == dist = 0

\* the spring force without the rest length
SpringForceNoRest(k, dist, L0, dir) == RDiv(k * dist * dir, DSCALE)

\* k * (dist - L0) * dir
SpringForce(k, dist, L0, dir) == RDiv(k * (dist - L0) * dir, DSCALE)

\* b * relVelDotUnit * dir
DampingForce(bNum, bDen, relVelDotUnit, dir) ==
    RDiv(bNum * relVelDotUnit * dir, bDen * DSCALE)

\* the sign with which Fx / mass enters forces[i1][j1]
SignFirst == 1

\* both points receive the force with the same sign
SignSecondSame == SignFirst

\* the sign with which Fx / mass enters forces[i2][j2]
SignSecond == 0 - 1

\* the part of applySpring after the unit direction <<dirX, dirY>> is known
SpringResult(f, s, dirX, dirY, dist, v1, v2) ==
    LET a == s.p1
        b == s.p2
        springFx == SpringForce(s.k, dist, s.L0, dirX)
        springFy == SpringForce(s.k, dist, s.L0, dirY)
        relVelX == v2[1] - v1[1]
        relVelY == v2[2] - v1[2]
        relVelDotUnit == RDiv(relVelX * dirX + relVelY * dirY, DSCALE)
        dampingFx == DampingForce(s.bNum, s.bDen, relVelDotUnit, dirX)
        dampingFy == DampingForce(s.bNum, s.bDen, relVelDotUnit, dirY)
        Fx == springFx + dampingFx
        Fy == springFy + dampingFy
        ax == RDiv(Fx * massDen, massNum)
        ay == RDiv(Fy * massDen, massNum)
        f1 == [f EXCEPT ![a[1]][a[2]] =
                  <<@[1] + SignFirst * ax, @[2] + SignFirst * ay>>]
    IN  [f1 EXCEPT ![b[1]][b[2]] =
                  <<@[1] + SignSecond * ax, @[2] + SignSecond * ay>>]

\* applySpring without the early return: coincident points get the x axis
\* as their direction
applySpringNoReturn(f, P, V, s) ==
    LET q1 == P[s.p1[1]][s.p1[2]]
        q2 == P[s.p2[1]][s.p2[2]]
        dx == q2[1] - q1[1]
        dy == q2[2] - q1[2]
        dist == Sqrt(dx * dx + dy * dy)
    IN  IF dist = 0
        THEN SpringResult(f, s, DSCALE, 0, dist,
                          V[s.p1[1]][s.p1[2]], V[s.p2[1]][s.p2[2]])
        ELSE SpringResult(f, s, RDiv(dx * DSCALE, dist), RDiv(dy * DSCALE, dist),
                          dist, V[s.p1[1]][s.p1[2]], V[s.p2[1]][s.p2[2]])

applySpring(f, P, V, s) ==
    LET q1 == P[s.p1[1]][s.p1[2]]
        q2 == P[s.p2[1]][s.p2[2]]
        dx == q2[1] - q1[1]
        dy == q2[2] - q1[2]
        dist == Sqrt(dx * dx + dy * dy)
    IN  IF Degenerate(dist) THEN f
        ELSE SpringResult(f, s, RDiv(dx * DSCALE, dist), RDiv(dy * DSCALE, dist),
                          dist, V[s.p1[1]][s.p1[2]], V[s.p2[1]][s.p2[2]])

\* ----------------------------------------------------------- calculateForces
StructuralCall(p1, p2) ==
    SpringCall(p1, p2, px(structuralRestLength), structuralK,
               structuralDampingNum, structuralDampingDen)

ShearCall(p1, p2) ==
    SpringCall(p1, p2, shearRestLength, shearK, shearDampingNum, shearDampingDen)

\* the structural loop from cell number n = i * c + j on, in the order of
\* the code: right neighbour, then down neighbour
RECURSIVE StructuralFrom(_, _, _)
StructuralFrom(n, r, c) ==
    IF r < 1 \/ c < 1 \/ n >= r * c THEN << >>
    ELSE LET i == n \div c
             j == n % c
             right == IF j < c - 1
                      THEN << StructuralCall(<<i, j>>, <<i, j + 1>>) >> ELSE << >>
             down == IF i < r - 1
                     THEN << StructuralCall(<<i, j>>, <<i + 1, j>>) >> ELSE << >>
         IN  right \o down \o StructuralFrom(n + 1, r, c)

\* the shear loop over the 2x2 blocks from block number n = i * (c-1) + j on
RECURSIVE ShearFrom(_, _, _)
ShearFrom(n, r, c) ==
    IF r < 2 \/ c < 2 \/ n >= (r - 1) * (c - 1) THEN << >>
    ELSE LET i == n \div (c - 1)
             j == n % (c - 1)
         IN  << ShearCall(<<i, j>>, <<i + 1, j + 1>>),
                ShearCall(<<i + 1, j>>, <<i, j + 1>>) >>
             \o ShearFrom(n + 1, r, c)

\* task >= "3"
ShearEnabled(t) == t >= 3

\* the applySpring calls of one calculateForces, in order
SpringCalls(t, r, c) ==
    StructuralFrom(0, r, c) \o (IF ShearEnabled(t) THEN ShearFrom(0, r, c) ELSE << >>)

\* forces[i][j] = [0, 0] for i < rows, j < cols
ZeroForces(f, r, c) ==
    [i \in DOMAIN f |-> [j \in DOMAIN f[i] |->
        IF i \in Rng(r) /\ j \in Rng(c) THEN <<0, 0>> ELSE f[i][j]]]

RECURSIVE ApplyAll(_, _, _, _, _)
ApplyAll(f, P, V, calls, n) ==
    IF n > Len(calls) THEN f
    ELSE ApplyAll(applySpring(f, P, V, calls[n]), P, V, calls, n + 1)

calculateForces(t, r, c, P, V, f) ==
    ApplyAll(ZeroForces(f, r, c), P, V, SpringCalls(t, r, c), 1)

\* --------------------------------------------------------------- integrators
\* G = [positions, velocities, forces, prevPositions]
Step(a) == RDiv(a * timeStepNum, timeStepDen)

\* an Euler step that advances the previous position as a Verlet step does
EulerPrevAdvanced(prev, x) == x

\* the loop body of updatePositions holds no write to prevPositions[i][j]
EulerPrev(prev, x) == prev

updatePositions(t, r, c, G) ==
    LET F == calculateForces(t, r, c, G.positions, G.velocities, G.forces)
        vel == [i \in DOMAIN G.velocities |-> [j \in DOMAIN G.velocities[i] |->
                  IF i \in Rng(r) /\ j \in Rng(c)
                  THEN <<G.velocities[i][j][1] + Step(F[i][j][1]),
                         G.velocities[i][j][2] + Step(F[i][j][2])>>
                  ELSE G.velocities[i][j]]]
        pos == [i \in DOMAIN G.positions |-> [j \in DOMAIN G.positions[i] |->
                  IF i \in Rng(r) /\ j \in Rng(c)
                  THEN <<G.positions[i][j][1] + Step(vel[i][j][1]),
                         G.positions[i][j][2] + Step(vel[i][j][2])>>
                  ELSE G.positions[i][j]]]
        prev == [i \in DOMAIN G.prevPositions |-> [j \in DOMAIN G.prevPositions[i] |->
                  IF i \in Rng(r) /\ j \in Rng(c)
                  THEN EulerPrev(G.prevPositions[i][j], G.positions[i][j])
                  ELSE G.prevPositions[i][j]]]
    IN  [positions |-> pos, velocities |-> vel, forces |-> F,
         prevPositions |-> prev]

\* the Verlet recurrence with the previous position added, not subtracted
VerletNewSum(x, prev, a) ==
    2 * x + prev + RDiv(a * timeStepNum * timeStepNum, timeStepDen * timeStepDen)

\* 2 * x - px + ax * h * h
VerletNew(x, prev, a) ==
    2 * x - prev + RDiv(a * timeStepNum * timeStepNum, timeStepDen * timeStepDen)

\* (newX - px) / (2 * h)
VerletVelocity(new, prev) == RDiv((new - prev) * timeStepDen, 2 * timeStepNum)

\* a Verlet step without boundary conditions
VerletUnbounded(v, limit) == v

\* the boundary conditions at the end of the loop body
VerletBound(v, limit) == Clamp(v, limit)

updatePosVerlet(t, r, c, G) ==
    LET F == calculateForces(t, r, c, G.positions, G.velocities, G.forces)
        In(i, j) == i \in Rng(r) /\ j \in Rng(c)
        newX(i, j) == VerletNew(G.positions[i][j][1], G.prevPositions[i][j][1], F[i][j][1])
        newY(i, j) == VerletNew(G.positions[i][j][2], G.prevPositions[i][j][2], F[i][j][2])
    IN  [positions |-> [i \in DOMAIN G.positions |-> [j \in DOMAIN G.positions[i] |->
             IF In(i, j)
             THEN <<VerletBound(newX(i, j), width), VerletBound(newY(i, j), height)>>
             ELSE G.positions[i][j]]],
         velocities |-> [i \in DOMAIN G.velocities |-> [j \in DOMAIN G.velocities[i] |->
             IF In(i, j)
             THEN <<VerletVelocity(newX(i, j), G.prevPositions[i][j][1]),
                    VerletVelocity(newY(i, j), G.prevPositions[i][j][2])>>
             ELSE G.velocities[i][j]]],
         forces |-> F,
         prevPositions |-> [i \in DOMAIN G.prevPositions |-> [j \in DOMAIN G.prevPositions[i] |->
             IF In(i, j) THEN G.positions[i][j] ELSE G.prevPositions[i][j]]]]

\* ------------------------------------------------------------ simulationLoop
\* simulationLoop without the test of isRunning
simulationLoopUngated(run, m, t, r, c, G) ==
    IF m = "euler"
    THEN [G |-> updatePositions(t, r, c, G), step |-> "euler", scheduled |-> TRUE]
    ELSE [G |-> updatePosVerlet(t, r, c, G), step |-> "verlet", scheduled |-> TRUE]

\* run: isRunning when the call starts.  step: the integrator that ran;
\* scheduled: requestAnimationFrame(simulationLoop) was called.
simulationLoop(run, m, t, r, c, G) ==
    IF ~run
    THEN [G |-> G, step |-> "none", scheduled |-> FALSE]
    ELSE IF m = "euler"
    THEN [G |-> updatePositions(t, r, c, G), step |-> "euler", scheduled |-> TRUE]
    ELSE [G |-> updatePosVerlet(t, r, c, G), step |-> "verlet", scheduled |-> TRUE]

\* ---------------------------------------------------------------------- drag
\* a drag that leaves prevPositions alone
DragPrevKept(d, old) == old

\* the value written to prevPositions[i][j] for the dragged node d
DragPrev(d, old) == d

\* the drag listener on the node bound to positions[i][j], with event.x, event.y
drag(P, PP, i, j, ev) ==
    LET d == <<Clamp(ev[1], width), Clamp(ev[2], height)>>
    IN  [positions |-> [P EXCEPT ![i][j] = d],
         prevPositions |-> [PP EXCEPT ![i][j] = DragPrev(d, @)]]

\* ------------------------------------------------------------------ parseInt
\* the texts typed into the rows and cols controls
InputTexts == {""} \cup {ToString(n) : n \in 0..MaxDim}

\* parseInt(text, 10)
ParseInt(text) ==
    IF \E n \in 0..MaxDim : ToString(n) = text
    THEN CHOOSE n \in 0..MaxDim : ToString(n) = text
    ELSE NaN

\* ------------------------------------------------------------------- history
NoPoint == <<0 - 1, 0 - 1>>
NoCall == SpringCall(NoPoint, NoPoint, 0, 0, 0, 1)

\* The handler that wrote the grid arrays last.  op: "init" (initializeGrid),
\* "euler" (updatePositions), "verlet" (updatePosVerlet) or "drag"; threw: it
\* ended in an exception; pt, ev: the node and the event of a drag.
Last(op, threw, pt, ev) == [op |-> op, threw |-> threw, pt |-> pt, ev |-> ev]

G0 == [positions |-> positions, velocities |-> velocities, forces |-> forces,
       prevPositions |-> prevPositions]

SetGrid(g) ==
    /\ positions' = g.positions
    /\ velocities' = g.velocities
    /\ forces' = g.forces
    /\ prevPositions' = g.prevPositions

\* ---------------------------------------------------------------------- Init
\* The page as loaded: the controls hold the values of the markup (any preset,
\* any method, any valid rows and cols) and initializeGrid() has run.
Init ==
    \E t0 \in Tasks, m0 \in Methods, r0 \in 1..MaxDim, c0 \in 1..MaxDim :
       LET g == initializeGrid(t0, r0, c0)
       IN  /\ task = t0
           /\ method = m0
           /\ rows = g.rows
           /\ cols = g.cols
           /\ positions = g.positions
           /\ velocities = g.velocities
           /\ forces = g.forces
           /\ prevPositions = g.prevPositions
           /\ isRunning = FALSE
           /\ pending = 0
           /\ last = Last("init", g.threw, NoPoint, <<0, 0>>)
           /\ call = NoCall
           /\ nSteps = 0
           /\ nDrags = 0
           /\ rowsValue = ToString(r0)
           /\ colsValue = ToString(c0)

\* ------------------------------------------------------------------ handlers
\* initializeGrid() as a listener calls it; the step and drag counts of the
\* new grid start at zero
Reinitialize(t, r0, c0) ==
    LET g == initializeGrid(t, r0, c0)
    IN  /\ rows' = g.rows
        /\ cols' = g.cols
        /\ SetGrid(g)
        /\ last' = Last("init", g.threw, NoPoint, <<0, 0>>)
        /\ nSteps' = 0
        /\ nDrags' = 0

\* The loop and the drag listener never read the controls.  Their steps are
\* explored on the grids whose dimensions are the ones the controls show, and
\* the controls are edited under presets 1 to 4 before the grid is stepped or
\* dragged.
ControlsShowGrid == ParseInt(rowsValue) = rows /\ ParseInt(colsValue) = cols
Untouched == nSteps = 0 /\ nDrags = 0

\* task-select "change" listener
TaskSelect(t) ==
    /\ t # task
    /\ task' = t
    /\ Reinitialize(t, rows, cols)
    /\ UNCHANGED <<method, isRunning, pending, call, controls>>

\* rows "input" listener; e.target.value is the text the control holds now
RowsInput(text) ==
    /\ rowsValue' = text
    /\ task # 5 => Untouched
    /\ IF task # 5 THEN UNCHANGED <<rows, cols, grid, last, nSteps, nDrags>>
                   ELSE Reinitialize(task, ParseInt(rowsValue'), cols)
    /\ UNCHANGED <<task, method, isRunning, pending, call, colsValue>>

\* cols "input" listener
ColsInput(text) ==
    /\ colsValue' = text
    /\ task # 5 => Untouched
    /\ IF task # 5 THEN UNCHANGED <<rows, cols, grid, last, nSteps, nDrags>>
                   ELSE Reinitialize(task, rows, ParseInt(colsValue'))
    /\ UNCHANGED <<task, method, isRunning, pending, call, rowsValue>>

\* the user picks the other entry of method-select (no listener)
MethodSelect(m) ==
    /\ m # method
    /\ method' = m
    /\ UNCHANGED <<task, rows, cols, grid, isRunning, pending, last, call,
                   nSteps, nDrags, controls>>

\* integration steps explored on a grid of r x c points
StepCap(r, c) == IF r = 1 /\ c = 1 THEN MaxSteps ELSE MinSteps

\* what a call of simulationLoop leaves, having consumed `consumed` pending
\* callbacks
RunLoop(run, consumed) ==
    LET res == simulationLoop(run, method, task, rows, cols, G0)
    IN  /\ res.step # "none" => (nSteps < StepCap(rows, cols) /\ ControlsShowGrid)
        /\ res.scheduled => pending - consumed < MaxPending
        /\ SetGrid(res.G)
        /\ pending' = pending - consumed + (IF res.scheduled THEN 1 ELSE 0)
        /\ nSteps' = nSteps + (IF res.step # "none" THEN 1 ELSE 0)
        /\ last' = IF res.step # "none"
                   THEN Last(res.step, FALSE, NoPoint, <<0, 0>>) ELSE last

\* toggle-simulation "click" listener
ToggleClick ==
    /\ isRunning' = ~isRunning
    /\ IF isRunning'
       THEN RunLoop(TRUE, 0)
       ELSE UNCHANGED <<grid, pending, nSteps, last>>
    /\ UNCHANGED <<task, method, rows, cols, call, nDrags, controls>>

\* a pending animation-frame callback runs simulationLoop
Tick ==
    /\ pending > 0
    /\ RunLoop(isRunning, 1)
    /\ UNCHANGED <<task, method, rows, cols, isRunning, call, nDrags, controls>>

\* event coordinates of a drag, in pixels
DragEvents == {<<0, 0>>, <<width \div 2, height \div 2>>, <<width, height>>}

\* the nodes that are dragged
DragNodes(r, c) ==
    {<<i, j>> \in Rng(r) \X Rng(c) : i * c + j < MaxDragNodes}

\* "drag" listener of the node bound to positions[i][j]
Drag(i, j, ev) ==
    /\ nDrags < MaxDrags
    /\ ControlsShowGrid
    /\ LET res == drag(positions, prevPositions, i, j, <<px(ev[1]), px(ev[2])>>)
       IN  /\ positions' = res.positions
           /\ prevPositions' = res.prevPositions
    /\ nDrags' = nDrags + 1
    /\ last' = Last("drag", FALSE, <<i, j>>, <<px(ev[1]), px(ev[2])>>)
    /\ UNCHANGED <<task, method, rows, cols, velocities, forces, isRunning,
                   pending, call, nSteps, controls>>

Next ==
    \/ \E t \in Tasks : TaskSelect(t)
    \/ \E text \in InputTexts : RowsInput(text)
    \/ \E text \in InputTexts : ColsInput(text)
    \/ \E m \in Methods : MethodSelect(m)
    \/ ToggleClick
    \/ Tick
    \/ \E n \in DragNodes(rows, cols), ev \in DragEvents : Drag(n[1], n[2], ev)

Spec == Init /\ [][Next]_vars


\* ------------------------------------------------- applySpring on its own
\* A 2 x 2 grid under preset 3 whose first two points hold any of a few
\* positions and velocities and whose force array holds leftovers; one call
\* of applySpring with any parameters is made on it, and the loop can run.
SpringPositions ==
    {<<px(padding), px(padding)>>,
     <<px(padding) + px(30), px(padding) + px(40)>>,
     <<px(padding) + px(100), px(padding)>>}

SpringVelocities == {<<0, 0>>, <<px(100), 0>>, <<0 - px(50), px(70)>>}

LeftoverForces(r, c) == [i \in Rng(r) |-> [j \in Rng(c) |-> <<px(i + 1), 0 - px(j + 2)>>]]

SpringRestLengths == {0, px(structuralRestLength)}
SpringStiffnesses == {0, structuralK}
SpringDampings == {<<0, 1>>, <<structuralDampingNum, structuralDampingDen>>}

InitSpring ==
    \E q \in SpringPositions, w1 \in SpringVelocities, w2 \in SpringVelocities,
       f0 \in {Zeros(2, 2), LeftoverForces(2, 2)}, m0 \in Methods :
       /\ task = 3
       /\ method = m0
       /\ rows = 2
       /\ cols = 2
       /\ positions = [Lattice(2, 2) EXCEPT ![0][1] = q]
       /\ prevPositions = positions
       /\ velocities = [Zeros(2, 2) EXCEPT ![0][0] = w1, ![0][1] = w2]
       /\ forces = f0
       /\ isRunning = FALSE
       /\ pending = 0
       /\ last = Last("init", FALSE, NoPoint, <<0, 0>>)
       /\ call = NoCall
       /\ nSteps = 0
       /\ nDrags = 0
       /\ rowsValue = ToString(rows)
       /\ colsValue = ToString(cols)

SpringApply(s) ==
    /\ call = NoCall
    /\ nSteps = 0
    /\ forces' = applySpring(forces, positions, velocities, s)
    /\ call' = s
    /\ UNCHANGED <<task, method, rows, cols, positions, velocities,
                   prevPositions, isRunning, pending, last, nSteps, nDrags,
                   controls>>

NextSpring ==
    \/ \E a \in {<<0, 0>>, <<0, 1>>}, b \in {<<0, 0>>, <<0, 1>>},
          L0 \in SpringRestLengths, k \in SpringStiffnesses, d \in SpringDampings :
          a # b /\ SpringApply(SpringCall(a, b, L0, k, d[1], d[2]))
    \/ ToggleClick
    \/ Tick

SpecSpring == InitSpring /\ [][NextSpring]_vars

\* ==================================================================== claims
Points(r, c) == Rng(r) \X Rng(c)

InBounds(q) ==
    /\ px(padding) <= q[1] /\ q[1] <= px(width) - px(padding)
    /\ px(padding) <= q[2] /\ q[2] <= px(height) - px(padding)

\* C1: when the grid was last written by an updatePosVerlet step, whatever
\* came before it, every position lies in [padding, width - padding] x
\* [padding, height - padding].
VerletLeavesPointsInBounds ==
    last.op = "verlet" =>
        \A n \in Points(rows, cols) : InBounds(positions[n[1]][n[2]])

\* a Verlet step has brought a point back inside that was outside before it
VerletClampedAPoint ==
    /\ last.op = "verlet"
    /\ \E n \in Points(rows, cols) :
          /\ ~InBounds(prevPositions[n[1]][n[2]])
          /\ InBounds(positions[n[1]][n[2]])

\* C2: a drag of node (i, j) with event (x, y) leaves positions[i][j] at the
\* event clamped into the padded bounds and prevPositions[i][j] equal to it,
\* and changes the position and previous position of no other node.
DragOverwritesOnePoint ==
    [][nDrags' = nDrags + 1 =>
        LET n == last'.pt
            ev == last'.ev
            d == <<Max(px(padding), Min(px(width) - px(padding), ev[1])),
                   Max(px(padding), Min(px(height) - px(padding), ev[2]))>>
        IN  /\ n \in Points(rows, cols)
            /\ positions'[n[1]][n[2]] = d
            /\ prevPositions'[n[1]][n[2]] = d
            /\ \A m \in Points(rows, cols) \ {n} :
                  /\ positions'[m[1]][m[2]] = positions[m[1]][m[2]]
                  /\ prevPositions'[m[1]][m[2]] = prevPositions[m[1]][m[2]]
            /\ DOMAIN positions' = DOMAIN positions
            /\ DOMAIN prevPositions' = DOMAIN prevPositions]_vars

\* a drag with an event outside the bounds has moved a node whose previous
\* position was elsewhere
DragClampedAPoint ==
    /\ last.op = "drag"
    /\ ~InBounds(last.ev)
    /\ positions[last.pt[1]][last.pt[2]] = prevPositions[last.pt[1]][last.pt[2]]
    /\ InBounds(positions[last.pt[1]][last.pt[2]])
    /\ nSteps > 0

\* C3: an animation-frame callback that starts while isRunning is false
\* changes no position, velocity, previous position or force and schedules
\* no further callback.
StoppedTickIsNoOp ==
    [][(~isRunning /\ pending > 0 /\ Tick) =>
          (UNCHANGED grid /\ pending' = pending - 1 /\ ~isRunning')]_vars

\* the loop ran, was stopped, and its pending callback has run
StoppedTickHasRun ==
    /\ ~isRunning
    /\ pending = 0
    /\ nSteps > 0

\* ------------------------------------------------ claims about applySpring
SpringApplied == call' # call

Minus(u, v) == <<u[1] - v[1], u[2] - v[2]>>
At(A, n) == A[n[1]][n[2]]

\* C4: one applySpring call changes the force of its first point by exactly
\* the negative of the change of the force of its second point, and changes
\* no other force, for every rest length, stiffness, damping, position and
\* velocity.
SpringForcesAreOpposite ==
    [][SpringApplied =>
        LET a == call'.p1
            b == call'.p2
            da == Minus(At(forces', a), At(forces, a))
            db == Minus(At(forces', b), At(forces, b))
        IN  /\ da = <<0 - db[1], 0 - db[2]>>
            /\ \A n \in Points(rows, cols) \ {a, b} : At(forces', n) = At(forces, n)
            /\ DOMAIN forces' = DOMAIN forces]_vars

\* a call has changed the forces of its two points
SpringChangedForces ==
    /\ call # NoCall
    /\ nSteps = 0
    /\ At(forces, call.p1) \notin {At(Zeros(2, 2), call.p1), At(LeftoverForces(2, 2), call.p1)}
    /\ At(forces, call.p2) \notin {At(Zeros(2, 2), call.p2), At(LeftoverForces(2, 2), call.p2)}

\* The force of the claim: F = k * (dist - L0) + b * ((vB - vA) . u), and the
\* vector (F / mass) * u, with u the unit vector from A to B.
ClaimedF(s) ==
    LET qa == At(positions, s.p1)
        qb == At(positions, s.p2)
        dx == qb[1] - qa[1]
        dy == qb[2] - qa[2]
        dist == Sqrt(dx * dx + dy * dy)
        rel == Minus(At(velocities, s.p2), At(velocities, s.p1))
    IN  s.k * (dist - s.L0) + RDiv(s.bNum * (rel[1] * dx + rel[2] * dy), s.bDen * dist)

ClaimedAcc(s) ==
    LET qa == At(positions, s.p1)
        qb == At(positions, s.p2)
        dx == qb[1] - qa[1]
        dy == qb[2] - qa[2]
        dist == Sqrt(dx * dx + dy * dy)
        F == ClaimedF(s)
    IN  <<RDiv(F * massDen * dx, massNum * dist), RDiv(F * massDen * dy, massNum * dist)>>

\* equal up to the rounding of the directions and of the force components
Near(u, v, F) ==
    LET tol == 4 * massDen + RDiv(Abs(F) * massDen, DSCALE)
    IN  Abs(u[1] - v[1]) <= tol /\ Abs(u[2] - v[2]) <= tol

Distinct(s) == At(positions, s.p1) # At(positions, s.p2)

\* C5 as stated: the force of A decreases by (F / mass) u and the force of B
\* increases by (F / mass) u.
SpringPushesFirstPointAway ==
    [][(SpringApplied /\ Distinct(call')) =>
        LET acc == ClaimedAcc(call')
        IN  /\ Near(Minus(At(forces, call'.p1), At(forces', call'.p1)), acc, ClaimedF(call'))
            /\ Near(Minus(At(forces', call'.p2), At(forces, call'.p2)), acc, ClaimedF(call'))]_vars

\* C5 as amended: the force of A increases by (F / mass) u and the force of B
\* decreases by (F / mass) u.
SpringPullsFirstPointAlong ==
    [][(SpringApplied /\ Distinct(call')) =>
        LET acc == ClaimedAcc(call')
        IN  /\ Near(Minus(At(forces', call'.p1), At(forces, call'.p1)), acc, ClaimedF(call'))
            /\ Near(Minus(At(forces, call'.p2), At(forces', call'.p2)), acc, ClaimedF(call'))]_vars

\* a call with stiffness and damping on a stretched spring between points in
\* relative motion has changed the forces
StretchedDampedSpringApplied ==
    /\ call # NoCall
    /\ nSteps = 0
    /\ call.k > 0 /\ call.bNum > 0 /\ call.L0 > 0
    /\ Distinct(call)
    /\ At(velocities, call.p1) # At(velocities, call.p2)
    /\ Abs(ClaimedF(call)) > 100 * massDen
    /\ At(forces, call.p1) \notin {At(Zeros(2, 2), call.p1), At(LeftoverForces(2, 2), call.p1)}

\* the connected pairs of the grid that lie on one another
Coincident(s) == At(positions, s.p1) = At(positions, s.p2)

LoopStepped == nSteps' = nSteps + 1

\* C6: an applySpring call on two points at the same position leaves every
\* force unchanged, whatever the velocities and the parameters, and a step
\* whose grid holds such a pair runs to its end: its forces are those of the
\* other springs alone.
CoincidentSpringIsNoOp ==
    [][/\ (SpringApplied /\ Coincident(call')) => forces' = forces
       /\ (LoopStepped /\ \E n \in 1..Len(SpringCalls(task, rows, cols)) :
                              Coincident(SpringCalls(task, rows, cols)[n])) =>
             /\ forces' = ApplyAll(Zeros(rows, cols), positions, velocities,
                                   SelectSeq(SpringCalls(task, rows, cols),
                                             LAMBDA s : ~Coincident(s)), 1)
             /\ last'.op = method
             /\ ~last'.threw]_vars

\* a call with stiffness and damping was made on two coincident points in
\* relative motion, over leftover forces
CoincidentSpringApplied ==
    /\ call # NoCall
    /\ nSteps = 0
    /\ Coincident(call)
    /\ call.k > 0 /\ call.bNum > 0
    /\ At(velocities, call.p1) # At(velocities, call.p2)
    /\ forces = LeftoverForces(2, 2)

\* ------------------------------------------------------ claims about the grid
\* C7: right after initializeGrid, for every preset, the previous position
\* of every point equals its position, the disturbed point included.
FreshGridIsAtRest ==
    (last.op = "init" /\ ~last.threw) => prevPositions = positions

VerletStepped == LoopStepped /\ last'.op = "verlet"

\* C8 as stated: a Verlet step leaves a point where it is when its position
\* equals its previous position and the acceleration accumulated for it in
\* the step is zero.
VerletKeepsRestingPoint ==
    [][VerletStepped =>
        \A n \in Points(rows, cols) :
           (At(positions, n) = At(prevPositions, n) /\ At(forces', n) = <<0, 0>>)
              => At(positions', n) = At(positions, n)]_vars

\* C8 as amended: the same for a point that lies inside the padded bounds;
\* the point is then at rest in the same way after the step.
VerletKeepsRestingPointInBounds ==
    [][VerletStepped =>
        \A n \in Points(rows, cols) :
           (/\ At(positions, n) = At(prevPositions, n)
            /\ At(forces', n) = <<0, 0>>
            /\ InBounds(At(positions, n)))
              => /\ At(positions', n) = At(positions, n)
                 /\ At(prevPositions', n) = At(positions', n)]_vars

\* a Verlet step has left in place a point that was at rest (the display
\* velocity of the step is zero only if the point did not move over the two
\* steps before) and felt no force
RestingPointStayed ==
    /\ last.op = "verlet"
    /\ \E n \in Points(rows, cols) :
          /\ At(positions, n) = At(prevPositions, n)
          /\ At(forces, n) = <<0, 0>>
          /\ At(velocities, n) = <<0, 0>>

Entries(A) == Cardinality({n \in Points(rows, cols) :
                             n[1] \in DOMAIN A /\ n[2] \in DOMAIN A[n[1]]})

Shaped(A) == /\ DOMAIN A = Rng(rows)
             /\ \A i \in DOMAIN A : DOMAIN A[i] = Rng(cols)
             /\ Entries(A) = rows * cols

\* C9: in every state rows >= 1 and cols >= 1 and the four arrays hold
\* exactly rows x cols entries each.
GridIsWellFormed ==
    /\ rows >= 1
    /\ cols >= 1
    /\ Shaped(positions) /\ Shaped(velocities)
    /\ Shaped(prevPositions) /\ Shaped(forces)

\* the edges of an r x c grid
StructuralEdges(r, c) ==
    {e \in Points(r, c) \X Points(r, c) :
        \/ e[2] = <<e[1][1], e[1][2] + 1>>
        \/ e[2] = <<e[1][1] + 1, e[1][2]>>}

ShearEdges(r, c) ==
    {e \in Points(r, c) \X Points(r, c) :
        \/ e[2] = <<e[1][1] + 1, e[1][2] + 1>>
        \/ e[2] = <<e[1][1] - 1, e[1][2] + 1>>}

EdgesOf(calls) == {<<calls[n].p1, calls[n].p2>> : n \in 1..Len(calls)}

\* C10: a step's force accumulation starts from zero forces and applies one
\* spring per structural edge, rows*(cols-1) + cols*(rows-1) in all, and,
\* only under presets 3 to 5, one spring per diagonal, 2*(rows-1)*(cols-1)
\* in all: 12 and 8 on the 3 x 3 grid of preset 4.  (A count computed from
\* a NaN rows or cols is NaN and equals no number of springs.)
AccumulationAppliesEachSpringOnce ==
    [][LoopStepped =>
        LET calls == SpringCalls(task, rows, cols)
            structural == SelectSeq(calls, LAMBDA s : s.k = structuralK)
            shear == SelectSeq(calls, LAMBDA s : s.k = shearK)
        IN  /\ rows # NaN /\ cols # NaN
            /\ Len(calls) = Len(structural) + Len(shear)
            /\ EdgesOf(structural) = StructuralEdges(rows, cols)
            /\ Len(structural) = Cardinality(StructuralEdges(rows, cols))
            /\ Len(structural) = rows * (cols - 1) + cols * (rows - 1)
            /\ EdgesOf(shear) = IF task >= 3 THEN ShearEdges(rows, cols) ELSE {}
            /\ Len(shear) = Cardinality(EdgesOf(shear))
            /\ Len(shear) = IF task >= 3 THEN 2 * (rows - 1) * (cols - 1) ELSE 0
            /\ task = 4 => (Len(structural) = 12 /\ Len(shear) = 8)
            /\ forces' = ApplyAll(Zeros(rows, cols), positions, velocities, calls, 1)]_vars

\* C11: after initializeGrid under preset 1 the grid is 1 x 2, point (0,0)
\* is at (padding, height / 2), point (0,1) is at its lattice position
\* (width - padding, height / 2) plus (20, 0), and every velocity and every
\* force is (0, 0).
PresetOneGrid ==
    (last.op = "init" /\ task = 1) =>
        /\ rows = 1 /\ cols = 2
        /\ positions[0][0] = <<px(padding), RDiv(px(height), 2)>>
        /\ positions[0][1] = <<px(width) - px(padding) + px(20), RDiv(px(height), 2)>>
        /\ \A n \in Points(rows, cols) :
              At(velocities, n) = <<0, 0>> /\ At(forces, n) = <<0, 0>>
        /\ DOMAIN velocities = {0} /\ DOMAIN velocities[0] = {0, 1}
        /\ DOMAIN forces = {0} /\ DOMAIN forces[0] = {0, 1}

\* preset 1 was initialised over a simulation that had run (its callback is
\* still pending)
PresetOneReinitialised ==
    /\ last.op = "init"
    /\ task = 1
    /\ pending > 0

EulerStepped == LoopStepped /\ last'.op = "euler"

\* C12: an Euler step changes no previous position and clamps nothing: every
\* point moves by h times its new velocity, wherever that leads.
EulerKeepsPrevPositions ==
    [][EulerStepped =>
        /\ prevPositions' = prevPositions
        /\ \A n \in Points(rows, cols) :
              At(positions', n) =
                 <<At(positions, n)[1] + Step(At(velocities', n)[1]),
                   At(positions, n)[2] + Step(At(velocities', n)[2])>>]_vars

\* an Euler step has carried a point out of the padded bounds, away from a
\* previous position it left untouched
EulerLeftThePaddedBounds ==
    /\ last.op = "euler"
    /\ \E n \in Points(rows, cols) :
          /\ ~InBounds(At(positions, n))
          /\ InBounds(At(prevPositions, n))

\* C13: whatever the order of clicks and animation-frame callbacks, at most
\* one simulationLoop callback is pending.
AtMostOneLoopPending == pending <= 1

Dragged == nDrags' = nDrags + 1

\* C14: a drag leaves the velocity of the dragged point at (0, 0), and the
\* integration step that follows the drag moves the point by what the forces
\* of that step give it alone: h * h * a under Euler, and the same before the
\* boundary conditions under Verlet.
DragResetsVelocity ==
    [][/\ Dragged => At(velocities', last'.pt) = <<0, 0>>
       /\ (LoopStepped /\ last.op = "drag") =>
             LET n == last.pt
                 x == At(positions, n)
                 a == At(forces', n)
             IN  IF last'.op = "euler"
                 THEN At(positions', n) = <<x[1] + Step(Step(a[1])), x[2] + Step(Step(a[2]))>>
                 ELSE At(positions', n) = <<VerletBound(VerletNew(x[1], x[1], a[1]), width),
                                            VerletBound(VerletNew(x[2], x[2], a[2]), height)>>]_vars

\* C15: whenever preset 5 is active, rows and cols are the numbers the rows
\* and cols controls hold, whatever presets were selected and whatever was
\* typed before, also under another preset.
FreeFormGridFollowsControls ==
    task = 5 => (rows = ParseInt(rowsValue) /\ cols = ParseInt(colsValue))

====
